---- MODULE Spec2Model ----
(***************************************************************************)
(* A model of the HMR engine: the server's ModuleGraph (module-graph.ts),   *)
(* its UpdateBatcher (update-batcher.ts), the batcher handler of           *)
(* createHMRServer (server/index.ts), the HMRServer (hmr-server.ts) and    *)
(* the client runtime (hmr-runtime.ts).                                    *)
(*                                                                         *)
(* JavaScript Sets and Maps iterate in insertion order, and the graph      *)
(* walks depend on that order, so every Set is modelled as a sequence      *)
(* without duplicates (its insertion order) and not as a TLA+ set.         *)
(***************************************************************************)
EXTENDS Naturals, Integers, Sequences, FiniteSets, TLC

\* ------------------------------------------------------------------------
\* Bounds of the model
\* ------------------------------------------------------------------------

\* Module ids that updateModule is called with or that parseImports yields.
ModuleIds == {"a", "b", "c"}

\* Longest import list parseImports returns in the model.
MaxImports == 1

\* Number of updateModule calls in a run (ModuleGraph.version counts them).
MaxUpdates == 3

\* Files that change events name.
Files == {"a", "b", "c"}

\* Number of jobs the batcher creates in a run (deduplicated enqueue calls
\* create none and are not counted).
MaxJobs == 3

\* Most jobs created in a run in which a file is enqueued again after its
\* batch failed.
MaxJobsAgain == 4

\* The clock, Date.now(), advances in steps of TickMs milliseconds, at most
\* MaxTicks times.
TickMs == 100

MaxTicks == 1

\* options.concurrency: the number of workers processQueue starts (the
\* default).
Concurrency == 4

\* options.batchWindow, in milliseconds (the default).
BatchWindow == 100

\* The largest batch collectBatch returns.
MaxBatchSize == 10

\* The connections the WebSocketServer accepts in a run.
Clients == {"c1", "c2"}

\* The files that clients load and whose changes the HMRServer processes.
ServedFiles == {"a", "b"}

\* The contents a file has when it is read: two that transform, one with a
\* syntax error, and a file that cannot be read.
Contents == {"v1", "v2"}

Invalid == "invalid"

Missing == "missing"

Reads == Contents \cup {Invalid, Missing}

\* The values user code stores in hot.data; the first is the initial {}.
DataValues == {"d0", "d1"}

\* Callbacks that user code passes to hot.accept.
Callbacks == {"cb"}

\* Longest list of accept callbacks a module registers in a run.
MaxCallbacks == 2

VARIABLES
    modules,                  \* ModuleGraph.modules: insertion-ordered nodes
    dependencyGraph,          \* ModuleGraph.dependencyGraph: id -> imports
    reverseDependencyGraph,   \* ModuleGraph.reverseDependencyGraph: id -> importers
    circularDependencyCache,  \* ModuleGraph.circularDependencyCache
    version                   \* ModuleGraph.version

graphVars ==
    <<modules, dependencyGraph, reverseDependencyGraph,
      circularDependencyCache, version>>

VARIABLES
    now,              \* Date.now()
    jobs,             \* every UpdateJob created so far: [file, priority, timestamp]
    promiseState,     \* per job, the state of the promise its resolve/reject settle
    handlerState,     \* per job, the state of the handler invocation for it
    queue,            \* UpdateBatcher.queue: the jobs it holds
    isProcessing,     \* UpdateBatcher.isProcessing
    pendingPromises,  \* UpdateBatcher.pendingPromises: file -> job (0: no entry)
    workers,          \* the worker() calls of the current processQueue() call
    enqueueResult     \* the promise enqueue returned, when the step taken was an
                      \* enqueue call (0 after any other step)

batcherVars ==
    <<now, jobs, promiseState, handlerState, queue, isProcessing,
      pendingPromises, workers, enqueueResult>>

VARIABLES
    hotModules,       \* the client runtime's state.modules: id -> module state
    pendingUpdates,   \* state.pendingUpdates, in insertion order
    isApplyingUpdates,\* state.isApplyingUpdates
    applying,         \* the calls of applyUpdate that await their import
    applyLog          \* the callbacks the latest step of the runtime ran

runtimeVars == <<pendingUpdates, isApplyingUpdates, applying, applyLog>>

clientVars == <<hotModules, runtimeVars>>

VARIABLES
    readyState,       \* readyState of each connection's WebSocket
    wssClients,       \* wss.clients, in insertion order
    connModules,      \* the Set "clientModules" local to each connection
    clientModules,    \* HMRServer.clientModules: file -> Set of connections,
                      \* with has = FALSE for a file the Map has no key for
    moduleCache,      \* HMRServer.moduleCache: file -> hash of the cached code
    sent              \* the messages the latest step passed to client.send

serverVars ==
    <<readyState, wssClients, connModules, clientModules, moduleCache, sent>>

VARIABLES
    transformCache,   \* TransformPipeline.cache and astCache, per file
    handlerResult     \* how the latest call of the batcher handler ended

handlerVars == <<transformCache, handlerResult>>

VARIABLES
    target,           \* the objects behind the view: object -> key -> value
    held,             \* the references the dependent code has obtained
    accessedProperties, \* createProxy's accessedProperties, in insertion order
    used              \* the string keys read or written through the view
                      \* since the last reset

proxyVars == <<target, held, accessedProperties, used>>

VARIABLES
    cache,            \* TransformPipeline.cache of each pipeline
    astCache,         \* TransformPipeline.astCache of each pipeline
    lastTransform     \* the latest call of transform on each pipeline

pipelineVars == <<cache, astCache, lastTransform>>

vars ==
    <<graphVars, batcherVars, clientVars, serverVars, handlerVars, proxyVars,
      pipelineVars>>

\* ------------------------------------------------------------------------
\* Insertion-ordered sets
\* ------------------------------------------------------------------------

Range(s) == {s[i] : i \in 1..Len(s)}

\* Set.has
Has(s, x) == x \in Range(s)

\* Set.add: appends unless already present.
SetAdd(s, x) == IF Has(s, x) THEN s ELSE Append(s, x)

\* Set.delete: removes the element, keeping the order of the rest.
SetDelete(s, x) == SelectSeq(s, LAMBDA y : y # x)

RECURSIVE NewSetFrom(_, _, _)
\* new Set(array): the array's elements in order of first occurrence.
NewSetFrom(arr, i, acc) ==
    IF i > Len(arr) THEN acc
    ELSE NewSetFrom(arr, i + 1, SetAdd(acc, arr[i]))

NewSet(arr) == NewSetFrom(arr, 1, <<>>)

\* The import lists parseImports can return: any list of module specifiers,
\* duplicates and the module's own id included.
ImportLists == UNION {[1..n -> ModuleIds] : n \in 0..MaxImports}

\* ------------------------------------------------------------------------
\* ModuleGraph
\* ------------------------------------------------------------------------

\* The ids of the recorded nodes, in Map order.
ModuleKeys == [i \in 1..Len(modules) |-> modules[i].id]

\* getModule(id): the node, or "undefined".
HasModule(id) == \E i \in 1..Len(modules) : modules[i].id = id

GetModule(id) == modules[CHOOSE i \in 1..Len(modules) : modules[i].id = id]

\* A node created by updateModule: its imports field is a fresh empty Set,
\* and no statement of the class ever writes to it afterwards.
NewNode(id) == [id |-> id, imports |-> <<>>]

\* getDependents(id): Array.from(reverseDependencyGraph.get(id) || []).
GetDependents(id) == reverseDependencyGraph[id]

RECURSIVE AddDependents(_, _, _, _)
\* The loop "for (const dep of added)" of updateDependencies.
AddDependents(rev, added, i, moduleId) ==
    IF i > Len(added) THEN rev
    ELSE AddDependents(
             [rev EXCEPT ![added[i]] = SetAdd(@, moduleId)],
             added, i + 1, moduleId)

RECURSIVE RemoveDependents(_, _, _, _)
\* The loop "for (const dep of removed)" of updateDependencies.  An importer
\* set that becomes empty is deleted from the Map, which reads back as empty.
RemoveDependents(rev, removed, i, moduleId) ==
    IF i > Len(removed) THEN rev
    ELSE RemoveDependents(
             [rev EXCEPT ![removed[i]] = SetDelete(@, moduleId)],
             removed, i + 1, moduleId)

\* updateDependencies(moduleId, newImports, oldImports): the new value of
\* reverseDependencyGraph.
UpdateReverse(moduleId, newImports, oldImports) ==
    LET added   == NewSet(SelectSeq(newImports, LAMBDA x : ~Has(oldImports, x)))
        removed == NewSet(SelectSeq(oldImports, LAMBDA x : ~Has(newImports, x)))
    IN  RemoveDependents(
            AddDependents(reverseDependencyGraph, added, 1, moduleId),
            removed, 1, moduleId)

\* updateModule(id, code) where parseImports(id, code) = imports.
UpdateModule(id, imports) ==
    /\ version < MaxUpdates
    /\ LET node == IF HasModule(id) THEN GetModule(id) ELSE NewNode(id)
       IN  /\ dependencyGraph' = [dependencyGraph EXCEPT ![id] = NewSet(imports)]
           /\ reverseDependencyGraph' = UpdateReverse(id, imports, node.imports)
           /\ modules' = IF HasModule(id) THEN modules ELSE Append(modules, node)
    /\ version' = version + 1
    /\ circularDependencyCache' = <<>>
    /\ UNCHANGED batcherVars
    /\ UNCHANGED <<clientVars, serverVars, handlerVars, proxyVars, pipelineVars>>

RECURSIVE Visit(_, _, _)
RECURSIVE VisitDependents(_, _, _, _)
\* The closure "visit" of getUpdateChain.  st holds the closure's captured
\* collections: visited, recursionStack, result and cycles.
Visit(id, path, st) ==
    IF id \in st.recursionStack
    THEN [st EXCEPT !.cycles = Append(@, Append(path, id))]
    ELSE IF id \in st.visited
    THEN st
    ELSE LET entered == [st EXCEPT !.visited = @ \cup {id},
                                   !.recursionStack = @ \cup {id}]
             walked  == VisitDependents(GetDependents(id), 1,
                                        Append(path, id), entered)
         IN  [walked EXCEPT !.result = Append(@, id),
                            !.recursionStack = @ \ {id}]

\* dependents.forEach(depId => visit(depId, [...path, id]))
VisitDependents(dependents, i, path, st) ==
    IF i > Len(dependents) THEN st
    ELSE VisitDependents(dependents, i + 1, path,
                         Visit(dependents[i], path, st))

\* Array.prototype.reverse
Reverse(s) == [i \in 1..Len(s) |-> s[Len(s) + 1 - i]]

\* The walk of getUpdateChain(changedFile), before the result is reversed.
UpdateWalk(changedFile) ==
    Visit(changedFile, <<>>,
          [visited |-> {}, recursionStack |-> {}, result |-> <<>>,
           cycles |-> <<>>])

\* A getUpdateChain that returns the walk's result without reversing it.
GetUpdateChainUnreversed(changedFile) == UpdateWalk(changedFile).result

\* getUpdateChain(changedFile)
GetUpdateChain(changedFile) == Reverse(UpdateWalk(changedFile).result)

RECURSIVE FirstPassVisit(_, _)
RECURSIVE FirstPassEach(_, _, _)
\* The closure "visit" of detectStronglyConnectedComponents: records the
\* finish order of a depth-first walk along the imports.
FirstPassVisit(id, st) ==
    IF id \in st.visited THEN st
    ELSE LET walked == FirstPassEach(dependencyGraph[id], 1,
                                     [st EXCEPT !.visited = @ \cup {id}])
         IN  [walked EXCEPT !.order = Append(@, id)]

\* ids.forEach(id => visit(id))
FirstPassEach(ids, i, st) ==
    IF i > Len(ids) THEN st
    ELSE FirstPassEach(ids, i + 1, FirstPassVisit(ids[i], st))

\* this.modules.forEach((_, id) => visit(id)): the finish order.
FinishOrder ==
    FirstPassEach(ModuleKeys, 1, [visited |-> {}, order |-> <<>>]).order

RECURSIVE TransposeDeps(_, _, _, _)
RECURSIVE TransposeKeys(_, _, _)
\* deps.forEach(depId => transposedGraph.get(depId).add(id))
TransposeDeps(t, id, deps, j) ==
    IF j > Len(deps) THEN t
    ELSE TransposeDeps([t EXCEPT ![deps[j]] = SetAdd(@, id)], id, deps, j + 1)

\* this.dependencyGraph.forEach((deps, id) => ...): the keys of
\* dependencyGraph were inserted in the order of the keys of modules.
TransposeKeys(t, keys, i) ==
    IF i > Len(keys) THEN t
    ELSE TransposeKeys(
             TransposeDeps(t, keys[i], dependencyGraph[keys[i]], 1),
             keys, i + 1)

\* A second pass that walks the import graph itself instead of its transpose.
UntransposedGraph == dependencyGraph

\* transposedGraph
TransposedGraph ==
    TransposeKeys([m \in ModuleIds |-> <<>>], ModuleKeys, 1)

RECURSIVE Assign(_, _, _)
RECURSIVE AssignEach(_, _, _, _)
\* The closure "assign": st holds visited and the component being filled,
\* transposed is the captured transposedGraph.
Assign(id, st, transposed) ==
    IF id \in st.visited THEN st
    ELSE AssignEach(transposed[id], 1,
                    [st EXCEPT !.visited = @ \cup {id},
                               !.component = Append(@, id)],
                    transposed)

\* dependents.forEach(depId => assign(depId, component))
AssignEach(ids, i, st, transposed) ==
    IF i > Len(ids) THEN st
    ELSE AssignEach(ids, i + 1, Assign(ids[i], st, transposed), transposed)

RECURSIVE SecondPass(_, _, _, _)
\* while (order.length > 0) { const id = order.pop() ... }
SecondPass(order, visited, components, transposed) ==
    IF Len(order) = 0 THEN components
    ELSE LET id   == order[Len(order)]
             rest == SubSeq(order, 1, Len(order) - 1)
         IN  IF id \in visited
             THEN SecondPass(rest, visited, components, transposed)
             ELSE LET st == Assign(id, [visited |-> visited,
                                        component |-> <<>>], transposed)
                  IN  SecondPass(rest, st.visited,
                          IF Len(st.component) > 1
                          THEN Append(components, st.component)
                          ELSE components,
                          transposed)

\* detectStronglyConnectedComponents()
DetectStronglyConnectedComponents ==
    SecondPass(FinishOrder, {}, <<>>, TransposedGraph)

\* circularDependencyCache.has(cacheKey)
CacheHas(key) ==
    \E i \in 1..Len(circularDependencyCache) :
        circularDependencyCache[i].key = key

\* getCircularDependencies(): fills the cache under the current version when
\* the cache does not hold that key, and returns the cached value.
GetCircularDependencies ==
    /\ ~CacheHas(version)
    /\ circularDependencyCache' =
           Append(circularDependencyCache,
                  [key |-> version,
                   value |-> DetectStronglyConnectedComponents])
    /\ UNCHANGED <<modules, dependencyGraph, reverseDependencyGraph, version>>
    /\ UNCHANGED batcherVars
    /\ UNCHANGED <<clientVars, serverVars, handlerVars, proxyVars, pipelineVars>>

GraphInit ==
    /\ modules = <<>>
    /\ dependencyGraph = [m \in ModuleIds |-> <<>>]
    /\ reverseDependencyGraph = [m \in ModuleIds |-> <<>>]
    /\ circularDependencyCache = <<>>
    /\ version = 0

\* ------------------------------------------------------------------------
\* UpdateBatcher
\* ------------------------------------------------------------------------

\* type UpdatePriority
Priorities == {"high", "normal", "low"}

\* The comparator the queue is constructed with.
Compare(a, b) ==
    IF a.priority # b.priority
    THEN IF a.priority = "high" THEN -1
         ELSE IF a.priority = "normal" /\ b.priority = "low" THEN -1
         ELSE 1
    ELSE a.timestamp - b.timestamp

\* queue.peek(), and the job queue.dequeue() removes.  PriorityQueue of
\* typescript-collections keeps its elements in a Heap built with
\* reverseCompareFunction(compareFunction): it treats a job that compares
\* greater as having the higher priority and hands out a greatest job of the
\* comparator first.  Which of several jobs that compare equal is at the root
\* is the heap's business: any of them.
Peek(q, js) == {j \in q : \A k \in q : Compare(js[j], js[k]) >= 0}

RECURSIVE CollectBatch(_, _, _, _)
\* collectBatch(), called at time t with the queue holding q: every batch it
\* can return, each with the queue it leaves.  batch is the batch so far.
CollectBatch(q, batch, t, js) ==
    IF q = {} \/ Len(batch) >= MaxBatchSize
    THEN {[batch |-> batch, queue |-> q]}
    ELSE UNION {
             IF \/ Len(batch) = 0
                \/ /\ t - js[j].timestamp < BatchWindow
                   /\ js[batch[1]].priority = js[j].priority
             THEN CollectBatch(q \ {j}, Append(batch, j), t, js)
             ELSE {[batch |-> batch, queue |-> q]}
             : j \in Peek(q, js)}

\* batch.map((job) => this.handler(job.file)): the handler is called for
\* every job of the batch.
StartHandlers(hs, batch) ==
    [j \in 1..Len(hs) |-> IF j \in Range(batch) THEN "running" ELSE hs[j]]

\* A worker at the head of its loop: it returns when the queue is empty, and
\* otherwise collects a batch and calls processBatch, which calls the
\* handlers and awaits them.
WorkerLoop(q, hs, t, js) ==
    IF q = {}
    THEN {[queue |-> q, handlerState |-> hs,
           worker |-> [st |-> "exited", batch |-> <<>>]]}
    ELSE {[queue |-> c.queue,
           handlerState |-> StartHandlers(hs, c.batch),
           worker |-> [st |-> "await", batch |-> c.batch]]
          : c \in CollectBatch(q, <<>>, t, js)}

RECURSIVE StartWorkers(_, _, _, _, _, _)
\* The loop of processQueue: worker() is called Concurrency times, and each
\* call runs to its first await before the next call is made.
StartWorkers(i, q, hs, ws, t, js) ==
    IF i > Concurrency
    THEN {[queue |-> q, handlerState |-> hs, workers |-> ws]}
    ELSE UNION {StartWorkers(i + 1, o.queue, o.handlerState,
                             [ws EXCEPT ![i] = o.worker], t, js)
                : o \in WorkerLoop(q, hs, t, js)}

\* An enqueue that never finds a pending promise.
NeverPending(file) == FALSE

\* this.pendingPromises.has(file)
HasPending(file) == pendingPromises[file] # 0

\* enqueue(file) while pendingPromises holds the file: the pending promise
\* is returned.  (enqueue is an async function: the promise the caller gets
\* adopts the outcome of the one returned here.)
EnqueuePending(file) ==
    /\ enqueueResult' = pendingPromises[file]
    /\ UNCHANGED <<now, jobs, promiseState, handlerState, queue,
                   isProcessing, pendingPromises, workers>>
    /\ UNCHANGED graphVars
    /\ UNCHANGED <<clientVars, serverVars, handlerVars, proxyVars, pipelineVars>>

\* enqueue(file, priority) when pendingPromises does not hold the file: a
\* promise and a job are created, the job is added to the queue, and
\* processQueue is called unless isProcessing is set.
EnqueueNewUpTo(file, priority, limit) ==
    /\ Len(jobs) < limit
    /\ LET id == Len(jobs) + 1
           js == Append(jobs, [file |-> file, priority |-> priority,
                               timestamp |-> now])
           hs == Append(handlerState, "queued")
       IN  /\ jobs' = js
           /\ promiseState' = Append(promiseState, "pending")
           /\ pendingPromises' = [pendingPromises EXCEPT ![file] = id]
           /\ enqueueResult' = id
           /\ IF isProcessing
              THEN /\ queue' = queue \cup {id}
                   /\ handlerState' = hs
                   /\ UNCHANGED <<isProcessing, workers>>
              ELSE /\ isProcessing' = TRUE
                   /\ \E o \in StartWorkers(1, queue \cup {id}, hs, workers,
                                            now, js) :
                          /\ queue' = o.queue
                          /\ handlerState' = o.handlerState
                          /\ workers' = o.workers
    /\ UNCHANGED now
    /\ UNCHANGED graphVars
    /\ UNCHANGED <<clientVars, serverVars, handlerVars, proxyVars, pipelineVars>>

EnqueueNew(file, priority) == EnqueueNewUpTo(file, priority, MaxJobs)

\* enqueue(file, priority)
Enqueue(file, priority) ==
    IF HasPending(file) THEN EnqueuePending(file)
    ELSE EnqueueNew(file, priority)

\* The promise a handler invocation returned is fulfilled.
HandlerReturn(j) ==
    /\ j \in 1..Len(jobs)
    /\ handlerState[j] = "running"
    /\ handlerState' = [handlerState EXCEPT ![j] = "returned"]
    /\ enqueueResult' = 0
    /\ UNCHANGED <<now, jobs, promiseState, queue, isProcessing,
                   pendingPromises, workers>>
    /\ UNCHANGED graphVars
    /\ UNCHANGED <<clientVars, serverVars, handlerVars, proxyVars, pipelineVars>>

\* The promise a handler invocation returned is rejected.
HandlerThrow(j) ==
    /\ j \in 1..Len(jobs)
    /\ handlerState[j] = "running"
    /\ handlerState' = [handlerState EXCEPT ![j] = "threw"]
    /\ enqueueResult' = 0
    /\ UNCHANGED <<now, jobs, promiseState, queue, isProcessing,
                   pendingPromises, workers>>
    /\ UNCHANGED graphVars
    /\ UNCHANGED <<clientVars, serverVars, handlerVars, proxyVars, pipelineVars>>

\* this.pendingPromises.delete(job.file) for every job of the batch.
DeletePending(pp, batch) ==
    [f \in Files |->
        IF \E i \in 1..Len(batch) : jobs[batch[i]].file = f THEN 0 ELSE pp[f]]

\* job.resolve() or job.reject(err) for every job of the batch: a promise
\* that is still pending takes the outcome.
Settle(ps, batch, outcome) ==
    [j \in 1..Len(ps) |->
        IF j \in Range(batch) /\ ps[j] = "pending" THEN outcome ELSE ps[j]]

\* Promise.all of the handlers' promises: fulfilled when every one is.
AllReturned(batch) ==
    \A i \in 1..Len(batch) : handlerState[batch[i]] = "returned"

\* Promise.all of the handlers' promises: rejected as soon as one is.
SomeThrew(batch) ==
    \E i \in 1..Len(batch) : handlerState[batch[i]] = "threw"

\* processBatch after its await, on success: every job is resolved and its
\* file's entry deleted.
ProcessBatchResolve(w) ==
    /\ workers[w].st = "await"
    /\ AllReturned(workers[w].batch)
    /\ promiseState' = Settle(promiseState, workers[w].batch, "resolved")
    /\ pendingPromises' = DeletePending(pendingPromises, workers[w].batch)
    /\ workers' = [workers EXCEPT ![w].st = "resolved"]
    /\ enqueueResult' = 0
    /\ UNCHANGED <<now, jobs, handlerState, queue, isProcessing>>
    /\ UNCHANGED graphVars
    /\ UNCHANGED <<clientVars, serverVars, handlerVars, proxyVars, pipelineVars>>

\* processBatch after its await, on failure: the entries of the batch's
\* files are deleted and the error is thrown on.
ProcessBatchThrow(w) ==
    /\ workers[w].st = "await"
    /\ SomeThrew(workers[w].batch)
    /\ pendingPromises' = DeletePending(pendingPromises, workers[w].batch)
    /\ workers' = [workers EXCEPT ![w].st = "threw"]
    /\ enqueueResult' = 0
    /\ UNCHANGED <<now, jobs, promiseState, handlerState, queue, isProcessing>>
    /\ UNCHANGED graphVars
    /\ UNCHANGED <<clientVars, serverVars, handlerVars, proxyVars, pipelineVars>>

\* The worker's catch block: batch.forEach((job) => job.reject(err)).
Catch(w) == Settle(promiseState, workers[w].batch, "rejected")

\* worker() after its await of processBatch: the catch block when the batch
\* failed, then the loop's next round.
WorkerResume(w) ==
    /\ workers[w].st \in {"resolved", "threw"}
    /\ promiseState' = IF workers[w].st = "threw" THEN Catch(w)
                       ELSE promiseState
    /\ \E o \in WorkerLoop(queue, handlerState, now, jobs) :
           /\ queue' = o.queue
           /\ handlerState' = o.handlerState
           /\ workers' = [workers EXCEPT ![w] = o.worker]
    /\ enqueueResult' = 0
    /\ UNCHANGED <<now, jobs, isProcessing, pendingPromises>>
    /\ UNCHANGED graphVars
    /\ UNCHANGED <<clientVars, serverVars, handlerVars, proxyVars, pipelineVars>>

\* A processQueue that resumes as soon as one worker has returned.
ProcessQueueDoneEarly ==
    /\ isProcessing
    /\ \E w \in 1..Concurrency : workers[w].st = "exited"
    /\ isProcessing' = FALSE
    /\ enqueueResult' = 0
    /\ UNCHANGED <<now, jobs, promiseState, handlerState, queue,
                   pendingPromises, workers>>
    /\ UNCHANGED graphVars
    /\ UNCHANGED <<clientVars, serverVars, handlerVars, proxyVars, pipelineVars>>

\* processQueue after its await of Promise.all(workers).
ProcessQueueDone ==
    /\ isProcessing
    /\ \A w \in 1..Concurrency : workers[w].st = "exited"
    /\ isProcessing' = FALSE
    /\ workers' = [w \in 1..Concurrency |-> [st |-> "idle", batch |-> <<>>]]
    /\ enqueueResult' = 0
    /\ UNCHANGED <<now, jobs, promiseState, handlerState, queue,
                   pendingPromises>>
    /\ UNCHANGED graphVars
    /\ UNCHANGED <<clientVars, serverVars, handlerVars, proxyVars, pipelineVars>>

\* Time passes.
Tick ==
    /\ now < MaxTicks * TickMs
    /\ now' = now + TickMs
    /\ enqueueResult' = 0
    /\ UNCHANGED <<jobs, promiseState, handlerState, queue, isProcessing,
                   pendingPromises, workers>>
    /\ UNCHANGED graphVars
    /\ UNCHANGED <<clientVars, serverVars, handlerVars, proxyVars, pipelineVars>>

BatcherInit ==
    /\ now = 0
    /\ jobs = <<>>
    /\ promiseState = <<>>
    /\ handlerState = <<>>
    /\ queue = {}
    /\ isProcessing = FALSE
    /\ pendingPromises = [f \in Files |-> 0]
    /\ workers = [w \in 1..Concurrency |-> [st |-> "idle", batch |-> <<>>]]
    /\ enqueueResult = 0

\* ------------------------------------------------------------------------
\* The client runtime (createHMRContext)
\* ------------------------------------------------------------------------

\* hot.accept() called without a callback.
NoCallback == "none"

\* state.modules[id] is undefined.
NoModuleState ==
    [present |-> FALSE, isAccepted |-> FALSE, isDeclined |-> FALSE,
     acceptCallbacks |-> <<>>, hotAcceptCallbacks |-> <<>>,
     disposeCallbacks |-> <<>>, data |-> "d0"]

\* The module state createHotContext creates: acceptCallbacks is the
\* module's own list, hotAcceptCallbacks the list of its hot state.
NewModuleState ==
    [present |-> TRUE, isAccepted |-> FALSE, isDeclined |-> FALSE,
     acceptCallbacks |-> <<>>, hotAcceptCallbacks |-> <<>>,
     disposeCallbacks |-> <<>>, data |-> "d0"]

\* createHotContext(importMeta) with importMeta.url = id.
CreateHotContext(id) ==
    /\ ~hotModules[id].present
    /\ hotModules' = [hotModules EXCEPT ![id] = NewModuleState]
    /\ UNCHANGED runtimeVars
    /\ UNCHANGED <<graphVars, batcherVars, serverVars, handlerVars, proxyVars, pipelineVars>>

\* hot.accept(callback) on module state st.
Accept(st, callback) ==
    IF callback # NoCallback
    THEN [st EXCEPT !.acceptCallbacks = Append(@, callback)]
    ELSE [st EXCEPT !.isAccepted = TRUE]

\* hot.accept(callback) of the hot context of module id.
HotAccept(id, callback) ==
    /\ hotModules[id].present
    /\ callback # NoCallback
       => Len(hotModules[id].acceptCallbacks) < MaxCallbacks
    /\ hotModules' = [hotModules EXCEPT ![id] = Accept(@, callback)]
    /\ UNCHANGED runtimeVars
    /\ UNCHANGED <<graphVars, batcherVars, serverVars, handlerVars, proxyVars, pipelineVars>>

\* hot.decline() on module state st.
Decline(st) == [st EXCEPT !.isDeclined = TRUE]

\* hot.decline() of the hot context of module id.
HotDecline(id) ==
    /\ hotModules[id].present
    /\ hotModules' = [hotModules EXCEPT ![id] = Decline(@)]
    /\ UNCHANGED runtimeVars
    /\ UNCHANGED <<graphVars, batcherVars, serverVars, handlerVars, proxyVars, pipelineVars>>

\* hot.dispose(callback) of the hot context of module id.
HotDispose(id, callback) ==
    /\ hotModules[id].present
    /\ Len(hotModules[id].disposeCallbacks) < MaxCallbacks
    /\ hotModules' =
           [hotModules EXCEPT ![id].disposeCallbacks = Append(@, callback)]
    /\ UNCHANGED runtimeVars
    /\ UNCHANGED <<graphVars, batcherVars, serverVars, handlerVars, proxyVars, pipelineVars>>

\* The file has a call of applyUpdate awaiting its import.
MidApply(file) == \E i \in 1..Len(applying) : applying[i].file = file

\* "hot.data = value" in the code of module id.  Module code and dispose
\* callbacks store the data an update is to carry over; a store made while
\* the module's import is awaited is not modelled.
SetData(id, value) ==
    /\ hotModules[id].present
    /\ ~MidApply(id)
    /\ hotModules[id].data # value
    /\ hotModules' = [hotModules EXCEPT ![id].data = value]
    /\ UNCHANGED runtimeVars
    /\ UNCHANGED <<graphVars, batcherVars, serverVars, handlerVars, proxyVars, pipelineVars>>

\* callbacks.forEach((cb) => cb(...)) over n callbacks: every way it can
\* end.  ran counts the callbacks called, the one that threw included: the
\* exception leaves forEach at once.
ForEachOutcomes(n) ==
    {[ran |-> n, threw |-> FALSE]}
        \cup {[ran |-> k, threw |-> TRUE] : k \in 1..n}

\* What a dispose callback leaves in hot.data: callbacks are user code and
\* may store a value; with no callback called the data is as it was.
DisposeData(st, o) == IF o.ran = 0 THEN {st.data} ELSE DataValues

RECURSIVE ApplyLoop(_, _)
\* applyUpdates from the head of its while loop, with pending the pending
\* set and hm the modules: every way it can run to its next suspension.
\* A file without module state is skipped; a throwing dispose callback
\* rejects applyUpdate, which ends the loop through the finally block; else
\* the loop is suspended at the import of the file.
ApplyLoop(pending, hm) ==
    IF pending = <<>>
    THEN {[pending |-> pending, hot |-> hm, isApplying |-> FALSE,
           started |-> <<>>, log |-> <<>>]}
    ELSE LET file == Head(pending)
             rest == Tail(pending)
             st == hm[file]
         IN  IF ~st.present THEN ApplyLoop(rest, hm)
             ELSE UNION {
                      {[pending |-> rest,
                        hot |-> [hm EXCEPT ![file].data = d],
                        isApplying |-> ~o.threw,
                        started |-> IF o.threw THEN <<>>
                                    ELSE <<[file |-> file, hotData |-> d]>>,
                        log |-> <<[file |-> file, phase |-> "dispose",
                                   registered |-> Len(st.disposeCallbacks),
                                   ran |-> o.ran, threw |-> o.threw]>>]
                       : d \in DisposeData(st, o)}
                      : o \in ForEachOutcomes(Len(st.disposeCallbacks))}

\* An isApplyingUpdates test that never holds.
NeverApplying == FALSE

\* state.isApplyingUpdates, as queueUpdate tests it.
IsApplying == isApplyingUpdates

\* queueUpdate(file), called for an update message: the file is added to
\* the pending set, and applyUpdates is called unless one is running.
QueueUpdate(file) ==
    /\ IF IsApplying
       THEN /\ pendingUpdates' = SetAdd(pendingUpdates, file)
            /\ applyLog' = <<>>
            /\ UNCHANGED <<hotModules, isApplyingUpdates, applying>>
       ELSE \E r \in ApplyLoop(SetAdd(pendingUpdates, file), hotModules) :
                /\ pendingUpdates' = r.pending
                /\ hotModules' = r.hot
                /\ isApplyingUpdates' = r.isApplying
                /\ applying' = applying \o r.started
                /\ applyLog' = r.log
    /\ UNCHANGED <<graphVars, batcherVars, serverVars, handlerVars, proxyVars, pipelineVars>>

\* The sequence s without its element i.
Without(s, i) == SubSeq(s, 1, i - 1) \o SubSeq(s, i + 1, Len(s))

\* A restore that resets hot.data to the initial value.
ResetData(st, hotData) == [st EXCEPT !.data = "d0"]

\* moduleState.hot.data = hotData
RestoreData(st, hotData) == [st EXCEPT !.data = hotData]

\* The import awaited by call i of applyUpdate yields the new module: the
\* exports and hot.data are set and the accept callbacks run, an exception
\* of one ending the forEach and being logged by the catch block; then
\* applyUpdates goes on with its loop.
ImportResolved(i) ==
    /\ i \in 1..Len(applying)
    /\ LET file == applying[i].file
           st == hotModules[file]
           hm == [hotModules EXCEPT
                     ![file] = RestoreData(st, applying[i].hotData)]
       IN  \E o \in ForEachOutcomes(Len(st.acceptCallbacks)),
              r \in ApplyLoop(pendingUpdates, hm) :
               /\ pendingUpdates' = r.pending
               /\ hotModules' = r.hot
               /\ isApplyingUpdates' = r.isApplying
               /\ applying' = Without(applying, i) \o r.started
               /\ applyLog' =
                      <<[file |-> file, phase |-> "accept",
                         registered |-> Len(st.acceptCallbacks),
                         ran |-> o.ran, threw |-> o.threw]>> \o r.log
    /\ UNCHANGED <<graphVars, batcherVars, serverVars, handlerVars, proxyVars, pipelineVars>>

\* The import awaited by call i of applyUpdate fails: the catch block logs
\* the error, and applyUpdates goes on with its loop.
ImportRejected(i) ==
    /\ i \in 1..Len(applying)
    /\ \E r \in ApplyLoop(pendingUpdates, hotModules) :
           /\ pendingUpdates' = r.pending
           /\ hotModules' = r.hot
           /\ isApplyingUpdates' = r.isApplying
           /\ applying' = Without(applying, i) \o r.started
           /\ applyLog' =
                  <<[file |-> applying[i].file, phase |-> "failed",
                     registered |-> 0, ran |-> 0, threw |-> FALSE]>> \o r.log
    /\ UNCHANGED <<graphVars, batcherVars, serverVars, handlerVars, proxyVars, pipelineVars>>

ClientInit ==
    /\ hotModules = [id \in ModuleIds |-> NoModuleState]
    /\ pendingUpdates = <<>>
    /\ isApplyingUpdates = FALSE
    /\ applying = <<>>
    /\ applyLog = <<>>

\* ------------------------------------------------------------------------
\* HMRServer
\* ------------------------------------------------------------------------

\* hash(content): SHA-256 is taken to be free of collisions on the contents
\* read in a run.
Hash(content) == <<"sha256", content>>

\* moduleCache.get(file) is undefined.
NotCached == <<>>

\* The 'connection' event of the WebSocketServer for connection ws.
OnConnection(ws) ==
    /\ readyState[ws] = "NONE"
    /\ readyState' = [readyState EXCEPT ![ws] = "OPEN"]
    /\ wssClients' = SetAdd(wssClients, ws)
    /\ connModules' = [connModules EXCEPT ![ws] = <<>>]
    /\ sent' = <<>>
    /\ UNCHANGED <<clientModules, moduleCache>>
    /\ UNCHANGED <<graphVars, batcherVars, clientVars, handlerVars, proxyVars, pipelineVars>>

\* The 'message' event of connection ws with a module-loaded message.
OnModuleLoaded(ws, file) ==
    /\ readyState[ws] = "OPEN"
    /\ connModules' = [connModules EXCEPT ![ws] = SetAdd(@, file)]
    /\ clientModules' =
           [clientModules EXCEPT
               ![file] = [has |-> TRUE, clients |-> SetAdd(@.clients, ws)]]
    /\ sent' = <<>>
    /\ UNCHANGED <<readyState, wssClients, moduleCache>>
    /\ UNCHANGED <<graphVars, batcherVars, clientVars, handlerVars, proxyVars, pipelineVars>>

\* The closing handshake of connection ws begins: the socket is no longer
\* OPEN, and its 'close' event has not been emitted yet.
BeginClose(ws) ==
    /\ readyState[ws] = "OPEN"
    /\ readyState' = [readyState EXCEPT ![ws] = "CLOSING"]
    /\ sent' = <<>>
    /\ UNCHANGED <<wssClients, connModules, clientModules, moduleCache>>
    /\ UNCHANGED <<graphVars, batcherVars, clientVars, handlerVars, proxyVars, pipelineVars>>

\* clientModules has no key for the file.
NoClients == [has |-> FALSE, clients |-> <<>>]

RECURSIVE RemoveClient(_, _, _, _)
\* The loop "clientModules.forEach(file => ...)" of the 'close' handler.
RemoveClient(cm, files, i, ws) ==
    IF i > Len(files) THEN cm
    ELSE LET entry == cm[files[i]]
             clients == SetDelete(entry.clients, ws)
         IN  RemoveClient(
                 [cm EXCEPT ![files[i]] =
                     IF ~entry.has THEN entry
                     ELSE IF clients = <<>> THEN NoClients
                     ELSE [has |-> TRUE, clients |-> clients]],
                 files, i + 1, ws)

\* A 'close' handler that leaves the registry as it is.
OnCloseKeepsRegistry(ws) ==
    /\ readyState[ws] = "CLOSING"
    /\ readyState' = [readyState EXCEPT ![ws] = "CLOSED"]
    /\ wssClients' = SetDelete(wssClients, ws)
    /\ sent' = <<>>
    /\ UNCHANGED <<connModules, clientModules, moduleCache>>
    /\ UNCHANGED <<graphVars, batcherVars, clientVars, handlerVars, proxyVars, pipelineVars>>

\* The 'close' event of connection ws.
OnClose(ws) ==
    /\ readyState[ws] = "CLOSING"
    /\ readyState' = [readyState EXCEPT ![ws] = "CLOSED"]
    /\ wssClients' = SetDelete(wssClients, ws)
    /\ clientModules' = RemoveClient(clientModules, connModules[ws], 1, ws)
    /\ sent' = <<>>
    /\ UNCHANGED <<connModules, moduleCache>>
    /\ UNCHANGED <<graphVars, batcherVars, clientVars, handlerVars, proxyVars, pipelineVars>>

\* transformModule(file) when readFile yields content: whether it threw,
\* and the moduleCache it leaves.
TransformModule(file, content) ==
    IF content = Missing THEN [threw |-> TRUE, cache |-> moduleCache]
    ELSE IF moduleCache[file] = Hash(content)
    THEN [threw |-> FALSE, cache |-> moduleCache]
    ELSE IF content = Invalid THEN [threw |-> TRUE, cache |-> moduleCache]
    ELSE [threw |-> FALSE,
          cache |-> [moduleCache EXCEPT ![file] = Hash(content)]]

\* calculateUpdates(updateChain)
CalculateUpdates(updateChain) ==
    [i \in 1..Len(updateChain) |->
        [type |-> "update", file |-> updateChain[i],
         clients |-> clientModules[updateChain[i]].clients]]

\* A readyState test that lets every socket pass.
AnyReadyState(client) == TRUE

\* client.readyState === WebSocket.OPEN
IsOpen(client) == readyState[client] = "OPEN"

RECURSIVE SendEach(_, _, _, _)
\* clients.forEach(client => { if (OPEN) client.send(message) })
SendEach(clients, i, type, file) ==
    IF i > Len(clients) THEN <<>>
    ELSE (IF IsOpen(clients[i])
          THEN <<[to |-> clients[i], type |-> type, file |-> file]>>
          ELSE <<>>)
         \o SendEach(clients, i + 1, type, file)

RECURSIVE NotifyEach(_, _)
\* notifyClients(updates): the messages sent, in order.
NotifyEach(updates, i) ==
    IF i > Len(updates) THEN <<>>
    ELSE SendEach(updates[i].clients, 1, updates[i].type, updates[i].file)
         \o NotifyEach(updates, i + 1)

NotifyClients(updates) == NotifyEach(updates, 1)

\* notifyError(file, error): the messages sent, in order.
NotifyError(file) == SendEach(wssClients, 1, "error", file)

\* processUpdate(file) when readFile yields content.  The cache update
\* and the sends that follow the transform are one step: they run in
\* consecutive continuations, and no socket event is handled in between.
ProcessUpdate(file, content) ==
    /\ LET t == TransformModule(file, content)
       IN  /\ moduleCache' = t.cache
           /\ sent' = IF t.threw THEN NotifyError(file)
                      ELSE NotifyClients(CalculateUpdates(GetUpdateChain(file)))
    /\ UNCHANGED <<readyState, wssClients, connModules, clientModules>>
    /\ UNCHANGED <<graphVars, batcherVars, clientVars, handlerVars, proxyVars, pipelineVars>>

ServerInit ==
    /\ readyState = [c \in Clients |-> "NONE"]
    /\ wssClients = <<>>
    /\ connModules = [c \in Clients |-> <<>>]
    /\ clientModules = [f \in Files |-> NoClients]
    /\ moduleCache = [f \in Files |-> NotCached]
    /\ sent = <<>>

\* ------------------------------------------------------------------------
\* The batcher handler of createHMRServer
\* ------------------------------------------------------------------------

\* TransformPipeline.cache has no entry for the file.
NotTransformed == <<"none">>

\* transformPipeline.transform(file, code, true) when readFile yielded
\* content and the transformed code, if new, holds the import statements
\* imports: whether it threw, the imports parseImports will find, and the
\* cache it leaves.  The cache key holds the pipeline's version, which is
\* never advanced, so the first result for a file is returned ever after.
Transform(file, content, imports) ==
    IF transformCache[file] # NotTransformed
    THEN [threw |-> FALSE, imports |-> transformCache[file][2],
          cache |-> transformCache]
    ELSE IF content = Invalid
    THEN [threw |-> TRUE, imports |-> <<>>, cache |-> transformCache]
    ELSE [threw |-> FALSE, imports |-> imports,
          cache |-> [transformCache EXCEPT ![file] = <<"code", imports>>]]

\* A handler that records the module before it reads the file.
HandlerEffectEager(file, content, imports) ==
    [outcome |-> IF content = Missing THEN "readError"
                 ELSE IF Transform(file, content, imports).threw
                 THEN "transformError" ELSE "typeError",
     update |-> TRUE,
     imports |-> imports,
     cache |-> IF content = Missing THEN transformCache
               ELSE Transform(file, content, imports).cache]

\* The handler "async (file) => { ... }": how it ends, whether it reached
\* moduleGraph.updateModule and with which imports, and the transform cache
\* it leaves.  hmrServer.notifyUpdate is not a function, so a call that
\* gets past updateModule and getUpdateChain ends in a TypeError.
HandlerEffect(file, content, imports) ==
    IF content = Missing
    THEN [outcome |-> "readError", update |-> FALSE, imports |-> <<>>,
          cache |-> transformCache]
    ELSE LET t == Transform(file, content, imports)
         IN  IF t.threw
             THEN [outcome |-> "transformError", update |-> FALSE,
                   imports |-> <<>>, cache |-> t.cache]
             ELSE [outcome |-> "typeError", update |-> TRUE,
                   imports |-> t.imports, cache |-> t.cache]

\* One call of the handler, start to end.  The graph is touched only in the
\* last continuation of the call, after both awaits.
Handler(file, content, imports) ==
    LET e == HandlerEffect(file, content, imports)
    IN  /\ e.update => version < MaxUpdates
        /\ transformCache' = e.cache
        /\ handlerResult' = [file |-> file, outcome |-> e.outcome]
        /\ IF e.update
           THEN LET node == IF HasModule(file) THEN GetModule(file)
                            ELSE NewNode(file)
                IN  /\ dependencyGraph' =
                           [dependencyGraph EXCEPT ![file] = NewSet(e.imports)]
                    /\ reverseDependencyGraph' =
                           UpdateReverse(file, e.imports, node.imports)
                    /\ modules' = IF HasModule(file) THEN modules
                                  ELSE Append(modules, node)
                    /\ version' = version + 1
                    /\ circularDependencyCache' = <<>>
           ELSE UNCHANGED graphVars
        /\ UNCHANGED <<batcherVars, clientVars, serverVars, proxyVars, pipelineVars>>

HandlerInit ==
    /\ transformCache = [f \in Files |-> NotTransformed]
    /\ handlerResult = [file |-> "", outcome |-> "none"]

\* ------------------------------------------------------------------------
\* The dependency proxy (createProxy)
\* ------------------------------------------------------------------------

\* The objects behind the view: the exports object handed to createProxy
\* and an object that properties can hold.
Objects == {"exports", "inner"}

\* Property keys: strings and a symbol.
StringKeys == {[type |-> "string", name |-> "p"],
               [type |-> "string", name |-> "q"]}

SymbolKeys == {[type |-> "symbol", name |-> "s"]}

Keys == StringKeys \cup SymbolKeys

\* The values the dependent code stores.
WrittenValues == {"v", "inner"}

\* typeof prop
TypeOfKey(prop) == prop.type

\* typeof value
TypeOfValue(value) ==
    IF value \in Objects \cup {"null"} THEN "object"
    ELSE IF value = "undefined" THEN "undefined"
    ELSE "string"

\* The handler records the property: typeof prop === "string".
IsRecorded(prop) == TypeOfKey(prop) = "string"

\* The get trap returns the value unwrapped.
IsNeverWrapped(value) == FALSE

\* The get trap returns a new Proxy of the value, with the same handler:
\* typeof value === "object" && value !== null.
IsWrapped(value) == TypeOfValue(value) = "object" /\ value # "null"

\* A reference to an object.  proxy: it is a Proxy made with the handler.
\* view: it is the view, or was read from the view under a string key.
Ref(obj, proxy, view) == [obj |-> obj, proxy |-> proxy, view |-> view]

\* Every reference.
Refs == {Ref(obj, proxy, view) : obj \in Objects, proxy \in BOOLEAN,
                                view \in BOOLEAN}

\* What the dependent code holds after a read that returned value.
Holding(value, proxy, view) ==
    IF value \in Objects THEN held \cup {Ref(value, proxy, view)} ELSE held

\* The string keys used through the view, after a use of prop through h.
UsedWith(h, prop) ==
    IF h.view /\ TypeOfKey(prop) = "string" THEN used \cup {prop} ELSE used

\* handler.get: "h[prop]" where h is a Proxy made with the handler.
HandlerGet(h, prop) ==
    /\ h \in held
    /\ h.proxy
    /\ LET value == target[h.obj][prop]
       IN  IF ~IsRecorded(prop)
           THEN /\ accessedProperties' = accessedProperties
                /\ held' = Holding(value, FALSE, FALSE)
           ELSE /\ accessedProperties' = SetAdd(accessedProperties, prop)
                /\ held' = Holding(value, IsWrapped(value), h.view)
    /\ used' = UsedWith(h, prop)
    /\ UNCHANGED target
    /\ UNCHANGED <<graphVars, batcherVars, clientVars, serverVars, handlerVars,
                 pipelineVars>>

\* handler.set: "h[prop] = value" where h is a Proxy made with the handler.
HandlerSet(h, prop, value) ==
    /\ h \in held
    /\ h.proxy
    /\ accessedProperties' = IF IsRecorded(prop)
                             THEN SetAdd(accessedProperties, prop)
                             ELSE accessedProperties
    /\ target' = [target EXCEPT ![h.obj][prop] = value]
    /\ used' = UsedWith(h, prop)
    /\ UNCHANGED held
    /\ UNCHANGED <<graphVars, batcherVars, clientVars, serverVars, handlerVars,
                 pipelineVars>>

\* "h[prop]" where h is an object the get trap returned unwrapped.
PlainGet(h, prop) ==
    /\ h \in held
    /\ ~h.proxy
    /\ held' = Holding(target[h.obj][prop], FALSE, FALSE)
    /\ used' = UsedWith(h, prop)
    /\ UNCHANGED <<target, accessedProperties>>
    /\ UNCHANGED <<graphVars, batcherVars, clientVars, serverVars, handlerVars,
                 pipelineVars>>

\* "h[prop] = value" where h is an object the get trap returned unwrapped.
PlainSet(h, prop, value) ==
    /\ h \in held
    /\ ~h.proxy
    /\ target' = [target EXCEPT ![h.obj][prop] = value]
    /\ used' = UsedWith(h, prop)
    /\ UNCHANGED <<held, accessedProperties>>
    /\ UNCHANGED <<graphVars, batcherVars, clientVars, serverVars, handlerVars,
                 pipelineVars>>

\* tracker.reset()
TrackerReset ==
    /\ accessedProperties' = <<>>
    /\ used' = {}
    /\ UNCHANGED <<target, held>>
    /\ UNCHANGED <<graphVars, batcherVars, clientVars, serverVars, handlerVars,
                 pipelineVars>>

\* tracker.getAccessedProperties()
GetAccessedProperties == Range(accessedProperties)

\* createProxy(target): the dependent code holds the view of an exports
\* object with an object under a string key and under a symbol key.
ProxyInit ==
    /\ target =
           [o \in Objects |->
               [k \in Keys |->
                   IF o = "exports"
                   THEN IF k.name = "q" THEN "v" ELSE "inner"
                   ELSE IF k.name = "p" THEN "null"
                        ELSE IF k.name = "q" THEN "v" ELSE "undefined"]]
    /\ held = {Ref("exports", TRUE, TRUE)}
    /\ accessedProperties = <<>>
    /\ used = {}

\* ------------------------------------------------------------------------
\* TransformPipeline.transform
\* ------------------------------------------------------------------------

\* Two instances of TransformPipeline.
Pipelines == {"p1", "p2"}

\* The file whose contents are transformed.
TransformedFiles == {"a"}

\* TransformPipeline.version: set at construction and never assigned again.
PipelineVersion == 0

\* `${file}:${this.version}:${isHmrEnabled}`
CacheKey(file, isHmrEnabled) == <<file, PipelineVersion, isHmrEnabled>>

CacheKeys == {CacheKey(file, h) : file \in TransformedFiles, h \in BOOLEAN}

\* The Maps have no entry for the key.
NoResult == [kind |-> "absent"]

NoAst == <<"absent">>

\* parse(code, ...): the syntax tree of the code.
ParseToAST(code) == <<"ast", code>>

\* What the two contents that parse import and export.
DepsIn(code) == IF code = "v1" THEN <<"b">> ELSE <<>>

ExportsIn(code) == IF code = "v1" THEN <<"default">> ELSE <<"x">>

\* analyzeModule(ast, file): the export names and import sources found by
\* walking the tree.
AnalyzeModule(ast) == [exports |-> ExportsIn(ast[2]), deps |-> DepsIn(ast[2])]

\* applyTransformations(file, code, ast, isHmrEnabled): the text of code,
\* edited at the positions of the nodes of ast.
ApplyTransformations(code, ast, isHmrEnabled) ==
    [text |-> code, editedAt |-> ast, hmr |-> isHmrEnabled]

\* transform(file, code, isHmrEnabled) on pipeline p: what the call
\* returns (or that it rejects) and the two caches it leaves.
TransformEffect(p, file, code, isHmrEnabled) ==
    LET cacheKey == CacheKey(file, isHmrEnabled)
    IN  IF cache[p][cacheKey] # NoResult
        THEN [result |-> cache[p][cacheKey],
              cache |-> cache, astCache |-> astCache]
        ELSE IF astCache[p][file] = NoAst /\ code = Invalid
        THEN [result |-> [kind |-> "threw"],
              cache |-> cache, astCache |-> astCache]
        ELSE LET ast == IF astCache[p][file] # NoAst THEN astCache[p][file]
                        ELSE ParseToAST(code)
                 analysis == AnalyzeModule(ast)
                 result == [kind |-> "result",
                            code |-> ApplyTransformations(code, ast,
                                                          isHmrEnabled),
                            deps |-> analysis.deps,
                            exports |-> analysis.exports]
             IN  [result |-> result,
                  cache |-> [cache EXCEPT ![p][cacheKey] = result],
                  astCache |-> [astCache EXCEPT ![p][file] = ast]]

\* One call of transform, start to end.
TransformCall(p, file, code, isHmrEnabled) ==
    LET e == TransformEffect(p, file, code, isHmrEnabled)
    IN  /\ cache' = e.cache
        /\ astCache' = e.astCache
        /\ lastTransform' =
               [lastTransform EXCEPT
                   ![p] = [called |-> TRUE, file |-> file, code |-> code,
                           isHmrEnabled |-> isHmrEnabled,
                           result |-> e.result]]
        /\ UNCHANGED <<graphVars, batcherVars, clientVars, serverVars,
                       handlerVars, proxyVars>>

\* new TransformPipeline(), twice.
PipelineInit ==
    /\ cache = [p \in Pipelines |-> [k \in CacheKeys |-> NoResult]]
    /\ astCache = [p \in Pipelines |-> [f \in TransformedFiles |-> NoAst]]
    /\ lastTransform =
           [p \in Pipelines |->
               [called |-> FALSE, file |-> "", code |-> "",
                isHmrEnabled |-> FALSE, result |-> NoResult]]

Init ==
    /\ GraphInit /\ BatcherInit /\ ClientInit /\ ServerInit /\ HandlerInit
    /\ ProxyInit /\ PipelineInit

PipelineNext ==
    \E p \in Pipelines, file \in TransformedFiles,
       code \in Contents \cup {Invalid}, isHmrEnabled \in BOOLEAN :
        TransformCall(p, file, code, isHmrEnabled)

PipelineSpec == Init /\ [][PipelineNext]_vars

ProxyNext ==
    \/ \E h \in Refs, prop \in Keys : HandlerGet(h, prop)
    \/ \E h \in Refs, prop \in Keys, value \in WrittenValues :
           HandlerSet(h, prop, value)
    \/ \E h \in Refs, prop \in Keys : PlainGet(h, prop)
    \/ \E h \in Refs, prop \in Keys, value \in WrittenValues :
           PlainSet(h, prop, value)
    \/ TrackerReset

ProxySpec == Init /\ [][ProxyNext]_vars

HMRServerNext ==
    \/ \E ws \in Clients : OnConnection(ws)
    \/ \E ws \in Clients, file \in ServedFiles : OnModuleLoaded(ws, file)
    \/ \E ws \in Clients : BeginClose(ws)
    \/ \E ws \in Clients : OnClose(ws)
    \/ \E file \in ServedFiles, content \in Reads : ProcessUpdate(file, content)

HMRServerSpec == Init /\ [][HMRServerNext]_vars

\* The graph of createHMRServer together with the accept state the
\* modules declare in the client runtime.
HotGraphNext ==
    \/ \E id \in ModuleIds, imports \in ImportLists : UpdateModule(id, imports)
    \/ \E id \in ModuleIds : CreateHotContext(id)
    \/ \E id \in ModuleIds, cb \in Callbacks \cup {NoCallback} : HotAccept(id, cb)

HotGraphSpec == Init /\ [][HotGraphNext]_vars

\* The HMRServer together with the decline state the modules declare in
\* the client runtime.
DeclineNext ==
    \/ HMRServerNext
    \/ \E id \in ServedFiles : CreateHotContext(id)
    \/ \E id \in ServedFiles : HotDecline(id)

DeclineSpec == Init /\ [][DeclineNext]_vars

\* The most calls of applyUpdate that may await their import at a time.
MaxApplying == 2

\* The client runtime applying the updates it receives for the modules it
\* has loaded.
ApplyNext ==
    \/ \E id \in ServedFiles : CreateHotContext(id)
    \/ \E id \in ServedFiles, cb \in Callbacks : HotAccept(id, cb)
    \/ \E id \in ServedFiles, cb \in Callbacks : HotDispose(id, cb)
    \/ \E id \in ServedFiles, value \in DataValues : SetData(id, value)
    \/ \E file \in ServedFiles : QueueUpdate(file)
    \/ \E i \in 1..MaxApplying : ImportResolved(i)
    \/ \E i \in 1..MaxApplying : ImportRejected(i)

ApplySpec == Init /\ [][ApplyNext]_vars

\* The import of a module that is being applied settles.
ImportSettles ==
    \E i \in 1..MaxApplying : ImportResolved(i) \/ ImportRejected(i)

\* The runtime when every import settles.
FairApplySpec == Init /\ [][ApplyNext]_vars /\ WF_vars(ImportSettles)

HandlerNext ==
    \E file \in Files, content \in Reads, imports \in ImportLists :
        Handler(file, content, imports)

HandlerSpec == Init /\ [][HandlerNext]_vars

ClientNext ==
    \/ \E id \in ModuleIds : CreateHotContext(id)
    \/ \E id \in ModuleIds, cb \in Callbacks \cup {NoCallback} : HotAccept(id, cb)
    \/ \E id \in ModuleIds : HotDecline(id)

ClientSpec == Init /\ [][ClientNext]_vars

BatcherNext ==
    \/ \E f \in Files, p \in Priorities : Enqueue(f, p)
    \/ \E j \in 1..MaxJobs : HandlerReturn(j)
    \/ \E j \in 1..MaxJobs : HandlerThrow(j)
    \/ \E w \in 1..Concurrency : ProcessBatchResolve(w)
    \/ \E w \in 1..Concurrency : ProcessBatchThrow(w)
    \/ \E w \in 1..Concurrency : WorkerResume(w)
    \/ ProcessQueueDone
    \/ Tick

BatcherSpec == Init /\ [][BatcherNext]_vars

\* enqueue(file): the priority defaults to "normal".  It is the call
\* createHMRServer makes for every file change.
EnqueueDefault(file) == Enqueue(file, "normal")

\* A continuation of the batcher runs: the microtask queue is drained
\* before the event loop does anything else.
Continuation ==
    \/ \E w \in 1..Concurrency : ProcessBatchResolve(w)
    \/ \E w \in 1..Concurrency : ProcessBatchThrow(w)
    \/ \E w \in 1..Concurrency : WorkerResume(w)
    \/ ProcessQueueDone

\* A handler invocation completes.
HandlerCompletes == \E j \in 1..MaxJobs : HandlerReturn(j) \/ HandlerThrow(j)

ServerNext ==
    \/ \E f \in Files : EnqueueDefault(f)
    \/ HandlerCompletes
    \/ Continuation
    \/ Tick

\* enqueue(file) in a run of up to MaxJobsAgain jobs.
EnqueueAgain(file) ==
    IF HasPending(file) THEN EnqueuePending(file)
    ELSE EnqueueNewUpTo(file, "normal", MaxJobsAgain)

\* The batcher as the server drives it, with room for a file to be enqueued
\* again after a batch of two jobs failed.
AgainNext ==
    \/ \E f \in Files : EnqueueAgain(f)
    \/ \E j \in 1..MaxJobsAgain : HandlerReturn(j)
    \/ \E j \in 1..MaxJobsAgain : HandlerThrow(j)
    \/ Continuation
    \/ Tick

AgainSpec == Init /\ [][AgainNext]_vars

\* The batcher as the server drives it, every handler invocation completing
\* and every continuation running.
FairServerSpec ==
    /\ Init
    /\ [][ServerNext]_vars
    /\ WF_vars(HandlerCompletes)
    /\ WF_vars(Continuation)

\* The file whose handler invocation never returns.
HungFile == "a"

\* A handler invocation for a file other than HungFile completes.
OtherHandlerCompletes ==
    \E j \in 1..MaxJobs :
        /\ j \in 1..Len(jobs)
        /\ jobs[j].file # HungFile
        /\ HandlerReturn(j) \/ HandlerThrow(j)

HungNext ==
    \/ \E f \in Files : EnqueueDefault(f)
    \/ OtherHandlerCompletes
    \/ Continuation
    \/ Tick

\* The same, with the handler invocations for HungFile never returning.
FairHungSpec ==
    /\ Init
    /\ [][HungNext]_vars
    /\ WF_vars(OtherHandlerCompletes)
    /\ WF_vars(Continuation)

\* ------------------------------------------------------------------------
\* Specification of the module graph
\* ------------------------------------------------------------------------

GraphNext ==
    \/ \E id \in ModuleIds, imports \in ImportLists : UpdateModule(id, imports)
    \/ GetCircularDependencies

GraphSpec == Init /\ [][GraphNext]_vars

\* ------------------------------------------------------------------------
\* Properties of the module graph
\* ------------------------------------------------------------------------

\* a's recorded imports, and b's recorded importers, as sets.
ImportsOf(a) == Range(dependencyGraph[a])

ImportersOf(b) == Range(GetDependents(b))

NoDuplicates(s) == \A i, j \in 1..Len(s) : s[i] = s[j] => i = j

RECURSIVE ReachFrom(_, _)
\* The modules reachable from those of seen along the import edges.
ReachFrom(seen, n) ==
    IF n = 0 THEN seen
    ELSE ReachFrom(seen \cup UNION {ImportsOf(m) : m \in seen}, n - 1)

\* For each module, the modules reachable from it along import edges in zero
\* or more steps.
Reachable == [a \in ModuleIds |-> ReachFrom({a}, Cardinality(ModuleIds))]

\* The strongly connected components of the import graph that have two or
\* more members.
CyclicComponents ==
    LET reach == Reachable
        comp(a) == {b \in reach[a] : a \in reach[b]}
    IN  {comp(a) : a \in {m \in ModuleIds : Cardinality(comp(m)) >= 2}}

\* The import graph has no cycle, a self-import included.
ImportsAcyclic ==
    LET reach == Reachable
    IN  \A a \in ModuleIds : \A b \in ImportsOf(a) : a \notin reach[b]

\* C1: after any sequence of updateModule calls, for every pair of modules
\* (a, b): b is in a's recorded imports if and only if a is in b's recorded
\* importers.
C1_ImportsMatchImporters ==
    \A a, b \in ModuleIds : (b \in ImportsOf(a)) <=> (a \in ImportersOf(b))

\* C2: in every graph built by updateModule, cyclic or not, getUpdateChain(x)
\* returns a chain whose head is x and in which no module appears twice (so x
\* appears exactly once).
C2_ChainHeadAndUnique ==
    \A x \in ModuleIds :
        LET chain == GetUpdateChain(x)
        IN  /\ Len(chain) >= 1
            /\ chain[1] = x
            /\ NoDuplicates(chain)

\* A graph whose importer relation has a cycle through all three modules,
\* which the walk from a records while still returning all three modules.
C2_Witness ==
    /\ Len(GetUpdateChain("a")) = 3
    /\ UpdateWalk("a").cycles # <<>>

\* The chain of x is topologically ordered with respect to the current
\* imports: no module of the chain imports a module placed after it.
TopologicallyOrdered(chain) ==
    \A i, j \in 1..Len(chain) : i < j => chain[j] \notin ImportsOf(chain[i])

\* C3: after any sequence of updateModule calls and for any module x,
\* getUpdateChain(x) is topologically ordered.  Stated here for the graphs
\* in which such an order exists at all, those whose imports are acyclic.
C3_TopologicalOrder ==
    ImportsAcyclic => \A x \in ModuleIds : TopologicallyOrdered(GetUpdateChain(x))

\* components lists exactly the components of cyclic, each once and each
\* member once.
ExactlyComponents(components, cyclic) ==
    /\ {Range(components[i]) : i \in 1..Len(components)} = cyclic
    /\ Len(components) = Cardinality(cyclic)
    /\ \A i \in 1..Len(components) : NoDuplicates(components[i])

\* C4: detectStronglyConnectedComponents returns exactly the strongly
\* connected components of the import graph that have two or more members,
\* each once with each member once (none for an acyclic graph), and
\* getCircularDependencies returns the same for the current graph.
C4_ExactComponents ==
    LET cyclic == CyclicComponents
    IN  /\ ExactlyComponents(DetectStronglyConnectedComponents, cyclic)
        /\ \A i \in 1..Len(circularDependencyCache) :
               /\ circularDependencyCache[i].key = version
               /\ ExactlyComponents(circularDependencyCache[i].value, cyclic)

\* A graph with a two-module cycle and a third module that imports into it
\* from outside, whose cycle getCircularDependencies has reported.
C4_Witness ==
    /\ \E c \in CyclicComponents : Cardinality(c) = 2
    /\ \E m \in ModuleIds :
           /\ ImportsOf(m) # {}
           /\ \A c \in CyclicComponents : m \notin c
    /\ circularDependencyCache # <<>>

\* ------------------------------------------------------------------------
\* Properties of the UpdateBatcher
\* ------------------------------------------------------------------------

\* The jobs in flight: those of the batches that processBatch is processing.
InFlight ==
    UNION {Range(workers[w].batch) :
               w \in {v \in 1..Concurrency : workers[v].st = "await"}}

\* The jobs that are queued or in flight.
Held == queue \cup InFlight

HeldFor(f) == {j \in Held : jobs[j].file = f}

JobsFor(f) == {j \in 1..Len(jobs) : jobs[j].file = f}

LatestJobFor(f) == CHOOSE j \in JobsFor(f) : \A k \in JobsFor(f) : k <= j

\* The handler invocation for job j has completed.
HandlerCompleted(j) == handlerState[j] \in {"returned", "threw"}

\* No continuation of the batcher is waiting to run: every processBatch that
\* awaits has a handler still running, no worker is due to resume and
\* processQueue is not due to resume.  It is the state in which a timer or
\* I/O callback finds the batcher.
MicrotasksDrained ==
    /\ \A w \in 1..Concurrency :
           /\ workers[w].st \notin {"resolved", "threw"}
           /\ workers[w].st = "await"
              => ~AllReturned(workers[w].batch) /\ ~SomeThrew(workers[w].batch)
    /\ ~(isProcessing /\ \A w \in 1..Concurrency : workers[w].st = "exited")

\* C6: an enqueue(f) call made after the previous handler invocation for f
\* has completed is not absorbed by the earlier job: it creates a job for f,
\* whose handler invocation is the new one.  (Stated for calls made from a
\* timer or I/O callback, that is, with no continuation of the batcher
\* waiting to run.)
C6_LateEnqueueStartsInvocation ==
    [][\A f \in Files :
           (/\ MicrotasksDrained
            /\ JobsFor(f) # {}
            /\ HandlerCompleted(LatestJobFor(f))
            /\ \E p \in Priorities : Enqueue(f, p))
           => /\ Len(jobs') = Len(jobs) + 1
              /\ jobs'[Len(jobs')].file = f]_vars

\* The rank of a priority class: HIGH before NORMAL before LOW.
Rank(p) == CASE p = "high" -> 3 [] p = "normal" -> 2 [] p = "low" -> 1

\* The workers that collect a batch in the step.
Collectors ==
    {w \in 1..Concurrency : workers[w].st # "await" /\ workers'[w].st = "await"}

\* The jobs queued at the moment worker w collects its batch in the step:
\* those it dequeues, those the workers called after it dequeue, and those
\* the step leaves in the queue.
QueuedAtCollect(w) ==
    queue' \cup UNION {Range(workers'[v].batch) : v \in {u \in Collectors : u >= w}}

\* C7: the first job a worker dequeues when it collects a batch is, among
\* the jobs queued at that moment, of the highest priority class present and,
\* within that class, one with the oldest timestamp.
C7_FirstDequeuedIsHighestOldest ==
    [][\A w \in Collectors :
           LET first == jobs'[workers'[w].batch[1]]
           IN  \A k \in QueuedAtCollect(w) :
                   /\ Rank(jobs'[k].priority) <= Rank(first.priority)
                   /\ jobs'[k].priority = first.priority
                      => first.timestamp <= jobs'[k].timestamp]_vars

\* Job j is resolved in the step.
Resolves(j) == promiseState[j] = "pending" /\ promiseState'[j] = "resolved"

\* job.resolve() is called for job j before it is for job k in the step:
\* both are in the batch whose jobs the step resolves, j first.
ResolvedFirstInStep(j, k) ==
    \E w \in 1..Concurrency :
        LET batch == workers[w].batch
        IN  \E m, n \in 1..Len(batch) : m < n /\ batch[m] = j /\ batch[n] = k

\* C8: of two jobs for distinct files that both resolve, the one enqueued
\* first resolves first.  (Stated for the pairs the priority rule does not
\* order: jobs of one priority class, the first with the strictly older
\* timestamp.)
C8_ResolveInEnqueueOrder ==
    [][\A j, k \in 1..Len(jobs) :
           (/\ jobs[j].file # jobs[k].file
            /\ jobs[j].priority = jobs[k].priority
            /\ jobs[j].timestamp < jobs[k].timestamp
            /\ Resolves(j)
            /\ promiseState'[k] = "resolved")
           => Resolves(k) /\ ResolvedFirstInStep(j, k)]_vars

\* A handler has thrown and its batch has been rejected.
SomeBatchRejected == \E k \in 1..Len(jobs) : promiseState[k] = "rejected"

\* C9, its last part: after a handler has thrown and its batch has been
\* rejected, the jobs that are still queued or are enqueued afterwards are
\* handed to the handler.
C9_QueuedAfterFailureIsHandled ==
    \A j \in 1..MaxJobs :
        (SomeBatchRejected /\ j \in queue)
            ~> (j \in 1..Len(jobs) /\ handlerState[j] # "queued")

\* The handler invocation for HungFile is running: it never returns.
Hung == \E h \in JobsFor(HungFile) : handlerState[h] = "running"

\* C10: while the handler invocation for one file hangs, a job for another
\* file that is queued is handed to the handler and its promise settles.
C10_OtherFilesStillProcessed ==
    \A j \in 1..MaxJobs :
        (Hung /\ j \in queue /\ jobs[j].file # HungFile)
            ~> (j \in 1..Len(jobs) /\ promiseState[j] # "pending")

\* ------------------------------------------------------------------------
\* Properties of the client runtime
\* ------------------------------------------------------------------------

\* C19: hot.accept() sets isAccepted; hot.accept(cb) appends cb to the
\* module's accept callbacks and sets isAccepted; hot.decline() sets
\* isDeclined.
C19_AcceptAndDeclineSetFlags ==
    [][\A id \in ModuleIds :
           /\ \A cb \in Callbacks \cup {NoCallback} :
                  HotAccept(id, cb)
                  => /\ hotModules'[id].isAccepted
                     /\ cb # NoCallback
                        => hotModules'[id].acceptCallbacks
                               = Append(hotModules[id].acceptCallbacks, cb)
           /\ HotDecline(id) => hotModules'[id].isDeclined]_vars

\* C20: isAccepted and isDeclined of a module are never both true.
C20_AcceptedDeclinedExclusive ==
    \A id \in ModuleIds :
        ~(hotModules[id].isAccepted /\ hotModules[id].isDeclined)

\* ------------------------------------------------------------------------
\* Properties of update planning and delivery
\* ------------------------------------------------------------------------

\* A module that has accepted HMR: isAccepted is set or an accept callback
\* is registered.
Accepting(m) ==
    /\ hotModules[m].present
    /\ \/ hotModules[m].isAccepted
       \/ hotModules[m].acceptCallbacks # <<>>
       \/ hotModules[m].hotAcceptCallbacks # <<>>

RECURSIVE PropagateFrom(_, _, _)
\* The modules that the change of x reaches along importer edges when
\* propagation does not continue through an accepting module other than x.
PropagateFrom(x, seen, n) ==
    IF n = 0 THEN seen
    ELSE PropagateFrom(
             x,
             seen \cup UNION {ImportersOf(m) :
                                m \in {k \in seen : k = x \/ ~Accepting(k)}},
             n - 1)

\* C11: a module that reaches the changed module only through a module
\* that has accepted HMR is not placed in the update chain.
C11_AcceptBoundaryStopsPropagation ==
    \A x \in ModuleIds :
        Range(GetUpdateChain(x))
            \subseteq PropagateFrom(x, {x}, Cardinality(ModuleIds))

\* The messages of a type among msgs that are addressed to client.
MessagesTo(msgs, client, type) ==
    SelectSeq(msgs, LAMBDA m : m.to = client /\ m.type = type)

\* The clients that registered file with a module-loaded message.
LoadedBy(file) == Range(clientModules[file].clients)

Declined(m) == hotModules[m].present /\ hotModules[m].isDeclined

\* C12: when the chain of a changed module holds a module that has declined
\* HMR, each open client that loaded a module of the chain is sent one
\* full-reload message, and no update message is sent.
C12_DeclineForcesFullReload ==
    [][\A x \in ServedFiles, content \in Reads :
           (/\ ProcessUpdate(x, content)
            /\ ~TransformModule(x, content).threw
            /\ \E m \in Range(GetUpdateChain(x)) : Declined(m))
           => /\ \A i \in 1..Len(sent') : sent'[i].type # "update"
              /\ \A cl \in Clients :
                     (/\ IsOpen(cl)
                      /\ \E m \in Range(GetUpdateChain(x)) : cl \in LoadedBy(m))
                     => Len(MessagesTo(sent', cl, "full-reload")) = 1]_vars

\* The update messages among msgs that name module m and are addressed to
\* client.
UpdatesTo(msgs, client, m) ==
    SelectSeq(msgs, LAMBDA u : u.to = client /\ u.type = "update" /\ u.file = m)

\* C13: when a change of x is processed, each client that registered a
\* module m of getUpdateChain(x) and whose socket is OPEN is sent exactly
\* one update message naming m, and every other client is sent none.
C13_OneUpdatePerLoadedModule ==
    [][\A x \in ServedFiles, content \in Reads :
           (ProcessUpdate(x, content) /\ ~TransformModule(x, content).threw)
           => \A m \in Range(GetUpdateChain(x)), cl \in Clients :
                  Len(UpdatesTo(sent', cl, m))
                      = IF cl \in LoadedBy(m) /\ readyState[cl] = "OPEN"
                        THEN 1 ELSE 0]_vars

\* The latest change sent one update, to c1, although c2 had registered the
\* same module: the socket of c2 was closing.
C13_Witness ==
    \E m \in ServedFiles :
        /\ Len(UpdatesTo(sent, "c1", m)) = 1
        /\ Len(sent) = 1
        /\ "c2" \in LoadedBy(m)
        /\ readyState["c2"] = "CLOSING"

\* C14: when reading or transforming a changed file f fails, the error
\* message for f goes to the open clients that loaded f and to no client
\* that did not load f.
C14_ErrorOnlyToLoaders ==
    [][\A f \in ServedFiles, content \in Reads :
           (ProcessUpdate(f, content) /\ TransformModule(f, content).threw)
           => \A cl \in Clients :
                  /\ (cl \in LoadedBy(f) /\ readyState[cl] = "OPEN")
                     => Len(MessagesTo(sent', cl, "error")) = 1
                  /\ cl \notin LoadedBy(f)
                     => Len(MessagesTo(sent', cl, "error")) = 0]_vars

\* C15: when the content read has the hash recorded by the last successful
\* transform of the file, the graph is not mutated and no message is sent.
C15_UnchangedHashIsSilent ==
    [][\A f \in ServedFiles, content \in Contents :
           (ProcessUpdate(f, content) /\ moduleCache[f] = Hash(content))
           => /\ UNCHANGED graphVars
              /\ sent' = <<>>]_vars

\* C16: when an updateModule call removes the last import edge to a module
\* b that no client has loaded, b is dropped from the graph.  (The code
\* designates no module as a project entry.)
C16_OrphanIsPruned ==
    [][\A id \in ModuleIds, imports \in ImportLists, b \in ModuleIds :
           (/\ UpdateModule(id, imports)
            /\ HasModule(b)
            /\ b # id
            /\ b \in ImportsOf(id)
            /\ b \notin Range(imports)
            /\ \A m \in ModuleIds \ {id} : b \notin ImportsOf(m)
            /\ LoadedBy(b) = {})
           => \A i \in 1..Len(modules') : modules'[i].id # b]_vars

\* ------------------------------------------------------------------------
\* Properties of the batcher handler
\* ------------------------------------------------------------------------

\* The latest call of the handler failed to read or to transform its file.
ReadOrTransformFailed(result) ==
    result.outcome \in {"readError", "transformError"}

C18_HandleNeverRejected ==
    \A j \in 1..Len(jobs) : promiseState[j] # "rejected"

\* ------------------------------------------------------------------------
\* Properties of the worker pool
\* ------------------------------------------------------------------------

\* C24: when every handler invocation returns or throws, every job enqueue
\* accepted is handed to the handler and its promise settles.
C24_EveryJobIsProcessed ==
    \A j \in 1..MaxJobs :
        (j \in 1..Len(jobs))
            ~> (/\ j \in 1..Len(jobs)
                /\ handlerState[j] # "queued"
                /\ promiseState[j] # "pending")

\* C25: no two handler invocations for one file are running at a time.
C25_OneInvocationPerFile ==
    \A j, k \in 1..Len(jobs) :
        (/\ j # k
         /\ handlerState[j] = "running"
         /\ handlerState[k] = "running")
        => jobs[j].file # jobs[k].file

\* The workers that have not returned yet.
RunningWorkers ==
    {w \in 1..Concurrency : workers[w].st \in {"await", "resolved", "threw"}}

\* enqueue called processQueue in this step: a job was created and the
\* workers were started.
PoolStarted == Len(jobs') > Len(jobs) /\ workers' # workers

\* C26: a pool of workers is started only when no worker of an earlier pool
\* is still running, so at most Concurrency batches are in flight.
C26_PoolsNeverOverlap ==
    [][/\ PoolStarted => RunningWorkers = {}
       /\ Cardinality({w \in 1..Concurrency : workers'[w].st = "await"})
              <= Concurrency]_vars

\* enqueue was called while a worker awaited its batch: the job was put in
\* the queue and no worker was started.
C26_Witness ==
    /\ enqueueResult \in queue
    /\ RunningWorkers # {}
    /\ \E w \in 1..Concurrency : workers[w].st = "exited"

\* C27: every module of getUpdateChain(x) other than x imports x, directly
\* or through other modules, by the imports recorded now.
C27_ChainHoldsCurrentImporters ==
    \A x \in ModuleIds :
        \A m \in Range(GetUpdateChain(x)) \ {x} : x \in Reachable[m]

\* ------------------------------------------------------------------------
\* Properties of the client registry
\* ------------------------------------------------------------------------

\* C30: when a connection closes it is left in the client set of no file,
\* no file is mapped to an empty client set, and the client sets hold the
\* other connections as before.
C30_CloseRemovesClient ==
    [][\A ws \in Clients :
           OnClose(ws)
           => \A f \in Files :
                  /\ ~Has(clientModules'[f].clients, ws)
                  /\ clientModules'[f].has => clientModules'[f].clients # <<>>
                  /\ \A other \in Clients \ {ws} :
                         Has(clientModules'[f].clients, other)
                             <=> Has(clientModules[f].clients, other)]_vars

\* c1 has closed after registering both files, one of them shared with c2,
\* which is still registered.
C30_Witness ==
    /\ readyState["c1"] = "CLOSED"
    /\ Len(connModules["c1"]) = 2
    /\ \E f \in ServedFiles : clientModules[f].clients = <<"c2">>
    /\ \E f \in ServedFiles : ~clientModules[f].has

\* ------------------------------------------------------------------------
\* Properties of the client's application of updates
\* ------------------------------------------------------------------------

\* C21: when an update is applied every registered dispose callback and
\* every registered accept callback is called, whether or not an earlier
\* one threw, and a throwing dispose callback does not abort the update:
\* the import of the file is started.
C21_EveryCallbackRuns ==
    \A i \in 1..Len(applyLog) :
        /\ applyLog[i].ran = applyLog[i].registered
        /\ applyLog[i].phase = "dispose" => MidApply(applyLog[i].file)

\* The step applied the import result of a call of applyUpdate for file.
Applied(file) ==
    \E i \in 1..Len(applying) :
        /\ applying[i].file = file
        /\ ImportResolved(i) \/ ImportRejected(i)

\* The hot.data the call of applyUpdate for file saved when the dispose
\* callbacks had finished.
SavedData(file) ==
    applying[CHOOSE i \in 1..Len(applying) : applying[i].file = file].hotData

\* The step started a call of applyUpdate for file: its dispose callbacks
\* ran.
Disposed(file) ==
    \E i \in 1..Len(applyLog') :
        applyLog'[i].file = file /\ applyLog'[i].phase = "dispose"

C28_OneApplyAtATime ==
    [][/\ Len(applying') <= 1
       /\ \A file \in ServedFiles :
              (QueueUpdate(file) /\ applying # <<>>)
              => /\ applying' = applying
                 /\ pendingUpdates' = SetAdd(pendingUpdates, file)
                 /\ hotModules' = hotModules]_vars

\* An update for the file being applied arrived during its import and is
\* pending.
C28_Witness ==
    /\ Len(applying) = 1
    /\ Has(pendingUpdates, applying[1].file)
    /\ applyLog = <<>>

\* C29: an update that is pending is taken from the pending set and
\* applied, and the pending set is empty whenever no applyUpdates is
\* running.
C29_PendingIsDrained ==
    /\ \A file \in ServedFiles :
           Has(pendingUpdates, file) ~> ~Has(pendingUpdates, file)
    /\ [](~isApplyingUpdates => pendingUpdates = <<>>)

\* ------------------------------------------------------------------------
\* Properties of the dependency proxy
\* ------------------------------------------------------------------------

\* C23: the tracker's accessed names are the string keys read or written
\* through the view since the last reset, keys of objects read from the
\* view included; no symbol key is among them; reset empties them.
C23_AccessedNamesAreStringKeysUsed ==
    [][/\ GetAccessedProperties' = used'
       /\ \A prop \in GetAccessedProperties' : TypeOfKey(prop) = "string"
       /\ TrackerReset => GetAccessedProperties' = {}]_vars

\* Both string keys were used, one of them on the object read from the
\* view, and the object was also read under the symbol key.
C23_Witness ==
    /\ Len(accessedProperties) = 2
    /\ Ref("inner", TRUE, TRUE) \in held
    /\ Ref("inner", FALSE, FALSE) \in held
    /\ target["inner"][CHOOSE k \in SymbolKeys : TRUE] # "undefined"

\* ------------------------------------------------------------------------
\* Properties of TransformPipeline.transform
\* ------------------------------------------------------------------------

\* C31: two pipelines whose latest calls of transform had the same file,
\* code and isHmrEnabled returned equal results, whatever each was called
\* with before.
C31_TransformIsAFunctionOfItsInputs ==
    \A p, q \in Pipelines :
        (/\ lastTransform[p].called
         /\ lastTransform[q].called
         /\ lastTransform[p].file = lastTransform[q].file
         /\ lastTransform[p].code = lastTransform[q].code
         /\ lastTransform[p].isHmrEnabled = lastTransform[q].isHmrEnabled)
        => lastTransform[p].result = lastTransform[q].result
====
